---- MODULE Spec2Model ----
(***************************************************************************)
(* Model of certsuite_claim_spreadsheet.py: the claim-to-report pipeline   *)
(* (extract_test_results, the worksheet rendering steps and the command    *)
(* entry point).                                                           *)
(*                                                                         *)
(* A Python str is a sequence of one-character strings; a JSON scalar is   *)
(* a record [t, s, n] (t = "str", "int", "null" or "absent").              *)
(***************************************************************************)
EXTENDS Integers, Sequences, FiniteSets, TLC

VARIABLES pc, job, env, data, ext, ws, saved, exitCode, fhist

vars == <<pc, job, env, data, ext, ws, saved, exitCode, fhist>>

(***************************************************************************)
(* Bounds of the model.                                                    *)
(***************************************************************************)
\* largest number of entries of a results mapping in the run specification
MaxEntries == 2
\* largest number of entries of a results mapping in the sorting specification
MaxSortEntries == 3
\* largest number of lines of a captured output in the filter specification
MaxLines == 3
\* largest number of entries of a results mapping in the long-report specification
MaxLongEntries == 190

(***************************************************************************)
(* String literals of the program.                                         *)
(***************************************************************************)
HTestId == <<"T", "e", "s", "t", "_", "I", "d">>
HTestText == <<"T", "e", "s", "t", "_", "T", "e", "x", "t">>
HState == <<"S", "t", "a", "t", "e">>
HCaptureOutput == <<"C", "a", "p", "t", "u", "r", "e", "_", "O", "u", "t", "p", "u", "t">>
HCategory == <<"C", "a", "t", "e", "g", "o", "r", "y", "_", "C", "l", "a", "s", "s", "i", "f", "i", "c", "a", "t", "i", "o", "n">>
HException == <<"E", "x", "c", "e", "p", "t", "i", "o", "n", "_", "P", "r", "o", "c", "e", "s", "s">>
HRemediation == <<"R", "e", "m", "e", "d", "i", "a", "t", "i", "o", "n">>
HBestPractice == <<"B", "e", "s", "t", "_", "P", "r", "a", "c", "t", "i", "c", "e", "_", "L", "i", "n", "k">>
StFailed == <<"f", "a", "i", "l", "e", "d">>
StError == <<"e", "r", "r", "o", "r">>
StSkipped == <<"s", "k", "i", "p", "p", "e", "d">>
StPassed == <<"p", "a", "s", "s", "e", "d">>
NA == <<"N", "/", "A">>
LSummary == <<"S", "u", "m", "m", "a", "r", "y">>
LTotal == <<"T", "o", "t", "a", "l">>
LFailed == <<"F", "a", "i", "l", "e", "d">>
LError == <<"E", "r", "r", "o", "r">>
LSkipped == <<"S", "k", "i", "p", "p", "e", "d">>
LPassed == <<"P", "a", "s", "s", "e", "d">>
LJobId == <<"J", "o", "b", "-", "I", "d">>
JobUrlBase == <<"h", "t", "t", "p", "s", ":", "/", "/", "w", "w", "w", ".", "d", "i", "s", "t", "r", "i", "b", "u", "t", "e", "d", "-", "c", "i", ".", "i", "o", "/", "j", "o", "b", "s", "/">>
OfflineJobId == <<"1", "2", "3", "4", "5">>
LComponent == <<"C", "o", "m", "p", "o", "n", "e", "n", "t">>
LVersion == <<"V", "e", "r", "s", "i", "o", "n">>
LK8S == <<"K", "8", "S">>
LOcClient == <<"o", "c", "C", "l", "i", "e", "n", "t">>
LOCP == <<"O", "C", "P">>
LCertSuit == <<"C", "E", "R", "T", "S", "U", "I", "T">>
LClaimF == <<"c", "l", "a", "i", "m", "F">>
LCertGitCom == <<"c", "e", "r", "t", "G", "i", "t", "C", "o", "m">>
INFO == <<"I", "N", "F", "O">>

\* the column headers, in order
Headers ==
    <<HTestId, HTestText, HState, HCaptureOutput, HCategory, HException,
      HRemediation, HBestPractice>>

(***************************************************************************)
(* JSON scalars and cell values.                                           *)
(***************************************************************************)
Str(s) == [t |-> "str", s |-> s, n |-> 0]
Num(n) == [t |-> "int", s |-> <<>>, n |-> n]
Null == [t |-> "null", s |-> <<>>, n |-> 0]
Absent == [t |-> "absent", s |-> <<>>, n |-> 0]

\* dict.get(key, default): the default only when the key is absent
Get(v, default) == IF v.t = "absent" THEN default ELSE v

\* dict.get(key): None when the key is absent
GetOrNone(v) == IF v.t = "absent" THEN Null ELSE v

(***************************************************************************)
(* Python str operations.                                                  *)
(***************************************************************************)
IsSpace(c) == c \in {" ", "\t", "\n", "\r"}

RECURSIVE LStrip(_)
LStrip(s) ==
    IF s = <<>> THEN <<>>
    ELSE IF IsSpace(Head(s)) THEN LStrip(Tail(s)) ELSE s

RECURSIVE RStrip(_)
RStrip(s) ==
    IF s = <<>> THEN <<>>
    ELSE IF IsSpace(s[Len(s)]) THEN RStrip(SubSeq(s, 1, Len(s) - 1)) ELSE s

\* str.strip()
Strip(s) == RStrip(LStrip(s))

\* the text before the first newline, and the text after it
RECURSIVE FirstLine(_)
FirstLine(s) ==
    IF s = <<>> \/ Head(s) = "\n" THEN <<>>
    ELSE <<Head(s)>> \o FirstLine(Tail(s))

\* str.split('\n'): always at least one line
RECURSIVE SplitLines(_)
SplitLines(s) ==
    LET l == FirstLine(s) IN
    IF Len(l) = Len(s) THEN <<l>>
    ELSE <<l>> \o SplitLines(SubSeq(s, Len(l) + 2, Len(s)))

\* sep.join(parts)
RECURSIVE Join(_, _)
Join(sep, parts) ==
    IF parts = <<>> THEN <<>>
    ELSE IF Len(parts) = 1 THEN parts[1]
    ELSE parts[1] \o sep \o Join(sep, Tail(parts))

\* sub in s
Contains(s, sub) ==
    \E i \in 1..(Len(s) - Len(sub) + 1) : SubSeq(s, i, i + Len(sub) - 1) = sub

\* code points of the characters test identifiers are drawn from
CodePoint(c) ==
    CASE c = "A" -> 65
      [] c = "B" -> 66
      [] OTHER -> 0

\* a < b on str: lexicographic by code point, a proper prefix first
RECURSIVE StrLess(_, _)
StrLess(a, b) ==
    IF b = <<>> THEN FALSE
    ELSE IF a = <<>> THEN TRUE
    ELSE IF Head(a) = Head(b) THEN StrLess(Tail(a), Tail(b))
    ELSE CodePoint(Head(a)) < CodePoint(Head(b))

(***************************************************************************)
(* extract_test_results.                                                   *)
(***************************************************************************)
\* a variant with a seeded fault: it keeps the lines that contain INFO
FilterCapturedOutputKeepInfo(captured_output) ==
    IF captured_output = <<>> THEN <<>>
    ELSE Join(<<"\n">>,
              SelectSeq(SplitLines(Strip(captured_output)),
                        LAMBDA line : Contains(line, INFO)))

\* lines 52-58: the captured output without the lines that contain INFO
FilterCapturedOutput(captured_output) ==
    IF captured_output = <<>> THEN <<>>
    ELSE Join(<<"\n">>,
              SelectSeq(SplitLines(Strip(captured_output)),
                        LAMBDA line : ~Contains(line, INFO)))

\* line 46: ', '.join(f"{k}: {v}" for k, v in categoryClassification.items())
CategoryText(cat) ==
    Join(<<",", " ">>, [i \in 1..Len(cat) |-> cat[i][1] \o <<":", " ">> \o cat[i][2]])

\* lines 41-68: whether normalizing the entry raises (an entry that is not a
\* mapping has no .get)
Malformed(test) == test.shape # "mapping"

\* a variant with a seeded fault: it adds the two fields to every row
NormalizeAlways(test) ==
    [Test_Id |-> Get(test.id, Str(<<>>)),
     Test_Text |-> Str(test.desc),
     State |-> Get(test.state, Str(<<>>)),
     Category_Classification |-> Str(CategoryText(test.cat)),
     Exception_Process |-> Str(test.exc),
     Remediation |-> Str(test.rem),
     Capture_Output |-> Str(FilterCapturedOutput(test.out)),
     Best_Practice_Link |-> Str(test.link)]

\* lines 42-63: the row of a well-formed entry
Normalize(test) ==
    LET result ==
            [Test_Id |-> Get(test.id, Str(<<>>)),
             Test_Text |-> Str(test.desc),
             State |-> Get(test.state, Str(<<>>)),
             Category_Classification |-> Str(CategoryText(test.cat)),
             Exception_Process |-> Str(test.exc),
             Remediation |-> Str(test.rem)]
    IN  IF GetOrNone(test.state) # Str(StPassed)
        THEN [Capture_Output |-> Str(FilterCapturedOutput(test.out)),
              Best_Practice_Link |-> Str(test.link)] @@ result
        ELSE result

\* lines 40-68: the rows of the entries that normalize, in the mapping's order
NormalizeAll(items) ==
    LET kept == SelectSeq(items, LAMBDA t : ~Malformed(t))
    IN  [i \in 1..Len(kept) |-> Normalize(kept[i])]

\* a < b on two Test_Id values; Python raises TypeError unless both are str
\* or both are int
Comparable(a, b) == a.t = b.t /\ a.t \in {"str", "int"}

IdLess(a, b) == IF a.t = "int" THEN a.n < b.n ELSE StrLess(a.s, b.s)

\* sorted() compares until the order of the whole list is settled, so it
\* raises as soon as the list holds two values that do not compare
Sortable(rs) ==
    Len(rs) < 2 \/ \A i, j \in 1..Len(rs) : Comparable(rs[i].Test_Id, rs[j].Test_Id)

\* r placed after the rows of the sorted list that are not greater than it
RECURSIVE InsertById(_, _)
InsertById(sortedRs, r) ==
    IF sortedRs = <<>> THEN <<r>>
    ELSE IF IdLess(r.Test_Id, Head(sortedRs).Test_Id) THEN <<r>> \o sortedRs
    ELSE <<Head(sortedRs)>> \o InsertById(Tail(sortedRs), r)

\* a variant with a seeded fault: it leaves the bucket in the mapping's order
SortByIdUnsorted(rs) == rs

\* sorted(rs, key=lambda r: r['Test_Id']): stable, ascending
RECURSIVE SortById(_)
SortById(rs) ==
    IF rs = <<>> THEN <<>>
    ELSE InsertById(SortById(SubSeq(rs, 1, Len(rs) - 1)), rs[Len(rs)])

\* [r for r in results if r['State'] == state]
Bucket(results, state) == SelectSeq(results, LAMBDA r : r.State = Str(state))

NoExtract ==
    [status |-> "none", rows |-> <<>>, failed |-> 0, error |-> 0, skipped |-> 0,
     passed |-> 0]

ExtractError(why) == [NoExtract EXCEPT !.status = why]

\* a variant with a seeded fault: it lets an empty results mapping through
NoResultsAbsentOnly(results) == ~results.present

\* line 37: not claim_results
NoResults(results) == ~results.present \/ results.items = <<>>

\* a variant with a seeded fault: it counts every row as failed
ExtractTestResultsMiscount(results) ==
    IF NoResults(results) THEN ExtractError("no_results")
    ELSE LET rs == NormalizeAll(results.items)
             all == Bucket(rs, StFailed) \o Bucket(rs, StError)
                    \o Bucket(rs, StSkipped) \o Bucket(rs, StPassed)
         IN  [status |-> "ok", rows |-> all, failed |-> Len(all), error |-> 0,
              skipped |-> 0, passed |-> 0]

\* lines 31-88: extract_test_results; status "ok" and the returned tuple, or the
\* ValueError it raises
ExtractTestResults(results) ==
    IF NoResults(results) THEN ExtractError("no_results")
    ELSE LET rs == NormalizeAll(results.items)
             failed_b == Bucket(rs, StFailed)
             error_b == Bucket(rs, StError)
             skipped_b == Bucket(rs, StSkipped)
             passed_b == Bucket(rs, StPassed)
         IN  IF ~(Sortable(failed_b) /\ Sortable(error_b)
                  /\ Sortable(skipped_b) /\ Sortable(passed_b))
             THEN ExtractError("type_error")
             ELSE [status |-> "ok",
                   rows |-> SortById(failed_b) \o SortById(error_b)
                            \o SortById(skipped_b) \o SortById(passed_b),
                   failed |-> Len(failed_b),
                   error |-> Len(error_b),
                   skipped |-> Len(skipped_b),
                   passed |-> Len(passed_b)]

(***************************************************************************)
(* The worksheet: cells keyed by <<row, column>>, each with its value, its *)
(* fill colour and its alignment; column widths; the row heights set, as   *)
(* the ranges <<first row, last row, height>> they were set over.          *)
(* Fonts and borders are not part of the modelled state.                   *)
(***************************************************************************)
NoAlign == [horizontal |-> "", vertical |-> "", wrap |-> "unset"]

NewCell(v) == [value |-> v, fill |-> "", align |-> NoAlign]

EmptySheet ==
    [cells |-> [p \in {} |-> NewCell(Null)],
     current_row |-> 0,
     width |-> [c \in {} |-> 0],
     pinned |-> <<>>]

HasCell(sheet, r, c) == <<r, c>> \in DOMAIN sheet.cells

\* the cell at (r, c), as ws.cell() creates it when it does not exist
CellAt(sheet, r, c) ==
    IF HasCell(sheet, r, c) THEN sheet.cells[<<r, c>>] ELSE NewCell(Null)

ValueAt(sheet, r, c) == CellAt(sheet, r, c).value

\* the largest number of S, 0 when S is empty
MaxOf(S) == IF S = {} THEN 0 ELSE CHOOSE m \in S : \A x \in S : x <= m

\* ws.max_row and ws.max_column
MaxRowOf(cells) == IF DOMAIN cells = {} THEN 1 ELSE MaxOf({p[1] : p \in DOMAIN cells})

MaxColOf(cells) == IF DOMAIN cells = {} THEN 1 ELSE MaxOf({p[2] : p \in DOMAIN cells})

\* the sheet with the cells of new put at their positions, over the cells
\* that were there
UpdateCells(sheet, new) ==
    [sheet EXCEPT !.cells =
        [p \in (DOMAIN sheet.cells) \cup (DOMAIN new) |->
            IF p \in DOMAIN new THEN new[p] ELSE sheet.cells[p]]]

\* ws['A1'] = v
SetValue(sheet, r, c, v) ==
    UpdateCells(sheet, [p \in {<<r, c>>} |-> [CellAt(sheet, r, c) EXCEPT !.value = v]])

\* ws.append(values): a new row below the current one
AppendRow(sheet, values) ==
    LET r == sheet.current_row + 1 IN
    [sheet EXCEPT
        !.cells = [p \in (DOMAIN sheet.cells) \cup {<<r, c>> : c \in 1..Len(values)} |->
                      IF p[1] = r THEN NewCell(values[p[2]]) ELSE sheet.cells[p]],
        !.current_row = r]

\* the keys of a row dictionary, in the order of the headers
HeaderKeys ==
    <<"Test_Id", "Test_Text", "State", "Capture_Output", "Category_Classification",
      "Exception_Process", "Remediation", "Best_Practice_Link">>

\* line 115: test.get(header, '')
RowValue(test, i) ==
    IF HeaderKeys[i] \in DOMAIN test THEN test[HeaderKeys[i]] ELSE Str(<<>>)

\* lines 111-117: the k-th test fills the k-th row below the current one
AppendTests(sheet, tests) ==
    LET base == sheet.current_row
        rows == (base + 1)..(base + Len(tests))
    IN  [sheet EXCEPT
            !.cells = [p \in (DOMAIN sheet.cells) \cup (rows \X (1..Len(Headers))) |->
                          IF p[1] \in rows
                          THEN NewCell(RowValue(tests[p[1] - base], p[2]))
                          ELSE sheet.cells[p]],
            !.current_row = base + Len(tests)]

\* lines 102-117: add_test_results_to_worksheet
AddTestResultsToWorksheet(sheet, sorted_tests) ==
    AppendTests(AppendRow(sheet, [i \in 1..Len(Headers) |-> Str(Headers[i])]),
                sorted_tests)

\* lines 146-154: the fill of a State cell
StateFill(v) ==
    CASE v = Str(StFailed) -> "FF0000"
      [] v = Str(StError) -> "8B0000"
      [] v = Str(StSkipped) -> "FFE599"
      [] v = Str(StPassed) -> "90EE90"
      [] OTHER -> ""

\* lines 139-154: the header row is filled blue, a State cell by its value
StyledCell(p, cell) ==
    IF p[1] = 1 THEN [cell EXCEPT !.fill = "AED6F1"]
    ELSE IF p[2] = 3 /\ StateFill(cell.value) # ""
         THEN [cell EXCEPT !.fill = StateFill(cell.value)]
    ELSE cell

\* ws.iter_rows(min_row, max_row): every position of the rows, up to the last
\* column in use
RowsRange(sheet, min_row, max_row) ==
    (min_row..max_row) \X (1..MaxColOf(sheet.cells))

\* lines 119-168: apply_basic_styling
ApplyBasicStyling(sheet) ==
    UpdateCells(sheet, [p \in RowsRange(sheet, 1, MaxRowOf(sheet.cells)) |->
                           StyledCell(p, CellAt(sheet, p[1], p[2]))])

\* len(str(cell.value))
RECURSIVE Digits(_)
Digits(n) == IF n < 10 THEN 1 ELSE 1 + Digits(n \div 10)

StrLen(v) ==
    CASE v.t = "str" -> Len(v.s)
      [] v.t = "int" -> Digits(v.n)
      [] OTHER -> 4

\* lines 174-184: the longest stringified value of the column, plus 2
AdjustedWidth(sheet, c) ==
    MaxOf({StrLen(ValueAt(sheet, r, c)) : r \in 1..MaxRowOf(sheet.cells)}) + 2

\* lines 170-190: set_column_formatting
SetColumnFormatting(sheet) ==
    LET cols == 1..MaxColOf(sheet.cells)
        aligned ==
            UpdateCells(sheet, [p \in RowsRange(sheet, 1, MaxRowOf(sheet.cells)) |->
                [CellAt(sheet, p[1], p[2]) EXCEPT !.align =
                    IF p[2] = 3 THEN [NoAlign EXCEPT !.horizontal = "center"]
                    ELSE [NoAlign EXCEPT !.wrap = "on"]]])
    IN  [aligned EXCEPT !.width = [c \in cols |-> AdjustedWidth(sheet, c)]]

\* ws.insert_rows(idx, amount): the cells from row idx on move down, with
\* their styles
InsertRows(sheet, idx, amount) ==
    LET moved(p) == IF p[1] >= idx THEN <<p[1] + amount, p[2]>> ELSE p
        origin(q) == IF q[1] >= idx + amount THEN <<q[1] - amount, q[2]>> ELSE q
        cells == [q \in {moved(p) : p \in DOMAIN sheet.cells} |-> sheet.cells[origin(q)]]
    IN  [sheet EXCEPT !.cells = cells, !.current_row = MaxRowOf(cells)]

RECURSIVE SetValues(_, _)
SetValues(sheet, writes) ==
    IF writes = <<>> THEN sheet
    ELSE SetValues(SetValue(sheet, Head(writes)[1], Head(writes)[2], Head(writes)[3]),
                   Tail(writes))

\* lines 217-225: the fill of a summary label
SummaryFill(v) ==
    CASE v = Str(LSummary) -> "AED6F1"
      [] v = Str(LTotal) -> "00FFFF"
      [] v = Str(LFailed) -> "FF0000"
      [] v = Str(LError) -> "8B0000"
      [] v = Str(LSkipped) -> "FFE599"
      [] v = Str(LPassed) -> "90EE90"
      [] v = Str(LJobId) -> "FFFFCC"
      [] OTHER -> ""

\* line 197: the number of rows inserted above the table
SummaryRows == 9

\* a variant with a seeded fault: it inserts one row fewer
SummaryWritesShort(sheet, sorted_tests, failed_tests, error_tests, skipped_tests, passed_tests, dci_jobid) ==
    SetValues(InsertRows(sheet, 1, SummaryRows - 1),
      << <<1, 1, Str(LSummary)>>, <<2, 1, Str(LTotal)>>, <<3, 1, Str(LFailed)>>,
         <<4, 1, Str(LError)>>, <<5, 1, Str(LSkipped)>>, <<6, 1, Str(LPassed)>>,
         <<2, 2, Num(Len(sorted_tests))>>, <<3, 2, Num(failed_tests)>>,
         <<4, 2, Num(error_tests)>>, <<5, 2, Num(skipped_tests)>>,
         <<6, 2, Num(passed_tests)>>,
         <<7, 1, Str(LJobId)>>, <<7, 2, Str(JobUrlBase \o dci_jobid)>>,
         <<8, 1, Str(<<>>)>>, <<9, 1, Str(<<>>)>> >>)

\* lines 197-214: the rows inserted and the summary cells written
SummaryWrites(sheet, sorted_tests, failed_tests, error_tests, skipped_tests, passed_tests, dci_jobid) ==
    SetValues(InsertRows(sheet, 1, SummaryRows),
      << <<1, 1, Str(LSummary)>>, <<2, 1, Str(LTotal)>>, <<3, 1, Str(LFailed)>>,
         <<4, 1, Str(LError)>>, <<5, 1, Str(LSkipped)>>, <<6, 1, Str(LPassed)>>,
         <<2, 2, Num(Len(sorted_tests))>>, <<3, 2, Num(failed_tests)>>,
         <<4, 2, Num(error_tests)>>, <<5, 2, Num(skipped_tests)>>,
         <<6, 2, Num(passed_tests)>>,
         <<7, 1, Str(LJobId)>>, <<7, 2, Str(JobUrlBase \o dci_jobid)>>,
         <<8, 1, Str(<<>>)>>, <<9, 1, Str(<<>>)>> >>)

\* lines 192-231: add_summary_section
AddSummarySection(sheet, sorted_tests, failed_tests, error_tests, skipped_tests, passed_tests, dci_jobid) ==
    LET written == SummaryWrites(sheet, sorted_tests, failed_tests, error_tests,
                                 skipped_tests, passed_tests, dci_jobid)
    IN  UpdateCells(written, [p \in RowsRange(written, 1, 8) |->
            LET cell == CellAt(written, p[1], p[2]) IN
            IF SummaryFill(cell.value) # ""
            THEN [cell EXCEPT !.fill = SummaryFill(cell.value)]
            ELSE cell])

\* the keys of the versions mapping, in the order of rows 2..7
VersionKeys == <<"k8s", "ocClient", "ocp", "certSuite", "claimFormat", "certSuiteGitCommit">>

\* a variant with a seeded fault: it leaves the cell of a missing version empty
VersionValueOrEmpty(versions, key) ==
    IF key \in DOMAIN versions THEN Str(versions[key]) ELSE Str(<<>>)

\* lines 240-245: versions.get(key, 'N/A')
VersionValue(versions, key) ==
    IF key \in DOMAIN versions THEN Str(versions[key]) ELSE Str(NA)

\* lines 233-264: add_version_information; a missing versions mapping is {}
AddVersionInformation(sheet, d) ==
    LET versions == IF d.versions.present THEN d.versions.map ELSE [k \in {} |-> <<>>]
        labels == <<LK8S, LOcClient, LOCP, LCertSuit, LClaimF, LCertGitCom>>
    IN  SetValues(sheet,
            << <<1, 3, Str(LComponent)>>, <<1, 4, Str(LVersion)>> >>
            \o [i \in 1..6 |-> <<i + 1, 3, Str(labels[i])>>]
            \o [i \in 1..6 |-> <<i + 1, 4, VersionValue(versions, VersionKeys[i])>>])

\* ws['B'][lo:hi] as Python slices a tuple of n cells: the rows of the slice
SliceRows(n, lo, hi) ==
    LET norm(i) == IF i < 0 THEN (IF i + n < 0 THEN 0 ELSE i + n)
                   ELSE (IF i > n THEN n ELSE i)
    IN  (norm(lo) + 1)..norm(hi)

\* lines 266-327: apply_final_formatting
ApplyFinalFormatting(sheet) ==
    LET max_row == MaxRowOf(sheet.cells)
        min_row == 1
        centred ==
            UpdateCells(sheet, [p \in RowsRange(sheet, 1, 1) \cup RowsRange(sheet, 9, 9) |->
                [CellAt(sheet, p[1], p[2]) EXCEPT !.align =
                    [horizontal |-> "center", vertical |-> "center", wrap |-> "off"]]])
        yellow ==
            UpdateCells(centred, [p \in {<<r, 3>> : r \in 2..7} |->
                [CellAt(centred, p[1], p[2]) EXCEPT !.fill = "FFFFCC"]])
        green ==
            UpdateCells(yellow, [p \in {<<1, 3>>, <<1, 4>>} |->
                [CellAt(yellow, p[1], p[2]) EXCEPT !.fill = "90EE90"]])
        left ==
            UpdateCells(green,
                [p \in {<<r, 2>> : r \in SliceRows(max_row, min_row - 1, max_row - 6)}
                       \cup {<<r, 4>> : r \in SliceRows(max_row, min_row - 2, max_row - 5)} |->
                    [CellAt(green, p[1], p[2]) EXCEPT !.align =
                        [horizontal |-> "left", vertical |-> "center", wrap |-> "unset"]]])
    IN  [left EXCEPT
            !.width = [c \in (DOMAIN left.width) \cup {2, 3, 4, 6, 7, 8} |->
                          IF c \in {2, 4, 6, 7, 8} THEN 100
                          ELSE IF c = 3 THEN 11
                          ELSE left.width[c]],
            !.pinned = Append(left.pinned, <<10, 199, 30>>)]

(***************************************************************************)
(* The inputs: claim records, the command line and the environment.        *)
(***************************************************************************)
\* sequences over S of a length in lo..hi
SeqsOf(S, lo, hi) == UNION {[1..n -> S] : n \in lo..hi}

\* the decimal digits of a natural number
RECURSIVE Decimal(_)
Decimal(n) ==
    LET d == <<"0", "1", "2", "3", "4", "5", "6", "7", "8", "9">>[(n % 10) + 1]
    IN  IF n < 10 THEN <<d>> ELSE Append(Decimal(n \div 10), d)

\* the description of the entry under the i-th key: unique in a claim
Desc(i) == <<"t", "e", "s", "t">> \o Decimal(i)

\* the captured output of spec.md's scenario
ScenarioOutput ==
    <<"l", "i", "n", "e", "1", "\n", "I", "N", "F", "O", " ", "n", "o", "i", "s", "y",
      "\n", "l", "i", "n", "e", "2">>

\* an entry with diagnostics and catalog texts, and a bare one
RichTest(id, state) ==
    [shape |-> "mapping", id |-> id, state |-> state, desc |-> <<>>,
     out |-> ScenarioOutput,
     link |-> <<"h", "t", "t", "p", ":", "/", "/", "b", "p">>,
     cat |-> << <<<<"T", "e", "l", "c", "o">>, <<"M">>>>, <<<<"F", "a", "r", "E", "d", "g", "e">>, <<"O">>>> >>,
     exc |-> <<"e", "x">>,
     rem |-> <<"f", "i", "x">>]

BareTest(id, state) ==
    [shape |-> "mapping", id |-> id, state |-> state, desc |-> <<>>, out |-> <<>>,
     link |-> <<>>, cat |-> <<>>, exc |-> <<>>, rem |-> <<>>]

\* an entry that is a JSON string instead of a mapping
ScalarTest == [BareTest(Absent, Absent) EXCEPT !.shape = "scalar"]

States == {Str(StFailed), Str(StError), Str(StSkipped), Str(StPassed)}

\* a state outside the four, and no state at all
OtherStates == {Str(<<"a", "b", "o", "r", "t", "e", "d">>), Absent}

\* the entries of the run specification
RunTests ==
    {RichTest(Str(<<"A">>), st) : st \in States \cup OtherStates}
    \cup {BareTest(Str(<<"B">>), st) : st \in {Str(StFailed), Str(StPassed)}}
    \cup {ScalarTest}

\* the entries of the sorting specification
SortIds == {Str(<<>>), Str(<<"A">>), Str(<<"A", "B">>), Str(<<"B">>), Null}

SortTests ==
    {BareTest(id, st) : id \in SortIds, st \in States}
    \cup {BareTest(Str(<<"A">>), Str(<<"a", "b", "o", "r", "t", "e", "d">>)), ScalarTest}

\* the results mapping of the tests, the i-th under a key of its own
Keyed(tests) == [i \in 1..Len(tests) |-> [tests[i] EXCEPT !.desc = Desc(i)]]

FullVersions ==
    [k \in {VersionKeys[i] : i \in 1..6} |-> <<"v", "4", ".", "1">>]

VersionMaps ==
    {[k \in K |-> <<"v", "4", ".", "1">>] : K \in SUBSET {VersionKeys[i] : i \in 1..6}}

ClaimRecord(hasClaim, hasResults, items, hasVersions, versions) ==
    [loaded |-> TRUE, claim |-> hasClaim,
     results |-> [present |-> hasResults, items |-> items],
     versions |-> [present |-> hasVersions, map |-> versions]]

NoData == [ClaimRecord(FALSE, FALSE, <<>>, FALSE, [k \in {} |-> <<>>]) EXCEPT !.loaded = FALSE]

\* the documents of a readable input file, by the kind of the file
ClaimRecords(kind) ==
    CASE kind = "no_claim" ->
            {ClaimRecord(FALSE, FALSE, <<>>, FALSE, [k \in {} |-> <<>>])}
      [] kind = "no_results" ->
            {ClaimRecord(TRUE, FALSE, <<>>, TRUE, FullVersions)}
      [] kind = "empty_results" ->
            {ClaimRecord(TRUE, TRUE, <<>>, TRUE, FullVersions)}
      [] kind = "valid" ->
            {ClaimRecord(TRUE, TRUE, Keyed(ts), TRUE, FullVersions) :
                ts \in SeqsOf(RunTests, 1, MaxEntries)}
            \cup {ClaimRecord(TRUE, TRUE,
                              Keyed(<<RichTest(Str(<<"A">>), Str(StFailed))>>),
                              TRUE, m) : m \in VersionMaps}
            \cup {ClaimRecord(TRUE, TRUE,
                              Keyed(<<BareTest(Str(<<"B">>), Str(StPassed))>>),
                              FALSE, [k \in {} |-> <<>>])}
      [] OTHER -> {}

InputKinds == {"missing", "invalid_json", "no_claim", "no_results", "empty_results", "valid"}

FetchOutcomes ==
    {"ok", "no_credentials", "tool_missing", "list_failed", "no_claim_file",
     "download_failed"}

(***************************************************************************)
(* The run: __main__ and generate_cert_test_excel_report, one action per   *)
(* step.                                                                   *)
(***************************************************************************)
Exit(code, why) ==
    /\ pc' = "exit"
    /\ exitCode' = code
    /\ env' = [env EXCEPT !.error = why]

\* lines 500-506, 530: check_file_exists("dcirc.sh")
CheckFileExists ==
    /\ pc = "main"
    /\ IF env.dcirc
       THEN pc' = "tool" /\ UNCHANGED <<env, exitCode>>
       ELSE Exit(0, "")
    /\ UNCHANGED <<job, data, ext, ws, saved, fhist>>

\* lines 532-536: a missing dcictl is reported and the run goes on
CheckTool ==
    /\ pc = "tool"
    /\ pc' = "fetch"
    /\ UNCHANGED <<job, env, data, ext, ws, saved, exitCode, fhist>>

\* lines 540-541, 452-498: download_dci_cert_claim_json
Download ==
    /\ pc = "fetch"
    /\ job.supplied
    /\ \E outcome \in FetchOutcomes :
        /\ outcome = "tool_missing" <=> ~env.tool /\ outcome # "no_credentials"
        /\ IF outcome = "ok"
           THEN /\ pc' = "load"
                /\ env' = [env EXCEPT !.fetch = outcome]
                /\ UNCHANGED exitCode
           ELSE /\ pc' = "exit"
                /\ exitCode' = 1
                /\ env' = [env EXCEPT !.fetch = outcome, !.error = "retrieval"]
    /\ UNCHANGED <<job, data, ext, ws, saved, fhist>>

\* lines 542-544: offline mode
Offline ==
    /\ pc = "fetch"
    /\ ~job.supplied
    /\ job' = [job EXCEPT !.id = OfflineJobId]
    /\ pc' = "load"
    /\ UNCHANGED <<env, data, ext, ws, saved, exitCode, fhist>>

\* lines 332-344: the input file is read and its structure validated
LoadClaim ==
    /\ pc = "load"
    /\ CASE env.input = "missing" ->
                Exit(1, "input_not_found") /\ UNCHANGED data
         [] env.input = "invalid_json" ->
                Exit(1, "invalid_json") /\ UNCHANGED data
         [] OTHER ->
                \E d \in ClaimRecords(env.input) :
                    /\ data' = d
                    /\ IF ~d.claim THEN Exit(1, "missing_claim")
                       ELSE IF ~d.results.present THEN Exit(1, "missing_results")
                       ELSE pc' = "extract" /\ UNCHANGED <<env, exitCode>>
    /\ UNCHANGED <<job, ext, ws, saved, fhist>>

\* line 347, and lines 379-381 when extraction raises
Extract ==
    /\ pc = "extract"
    /\ ext' = ExtractTestResults(data.results)
    /\ IF ext'.status = "ok"
       THEN pc' = "workbook" /\ UNCHANGED <<env, exitCode>>
       ELSE Exit(1, ext'.status)
    /\ UNCHANGED <<job, data, ws, saved, fhist>>

\* lines 350-353: create_workbook_and_worksheet, add_test_results_to_worksheet
AddTestResults ==
    /\ pc = "workbook"
    /\ ws' = AddTestResultsToWorksheet(EmptySheet, ext.rows)
    /\ pc' = "style"
    /\ UNCHANGED <<job, env, data, ext, saved, exitCode, fhist>>

\* line 356
BasicStyling ==
    /\ pc = "style"
    /\ ws' = ApplyBasicStyling(ws)
    /\ pc' = "columns"
    /\ UNCHANGED <<job, env, data, ext, saved, exitCode, fhist>>

\* line 359
ColumnFormatting ==
    /\ pc = "columns"
    /\ ws' = SetColumnFormatting(ws)
    /\ pc' = "summary"
    /\ UNCHANGED <<job, env, data, ext, saved, exitCode, fhist>>

\* line 362
SummarySection ==
    /\ pc = "summary"
    /\ ws' = AddSummarySection(ws, ext.rows, ext.failed, ext.error, ext.skipped,
                               ext.passed, job.id)
    /\ pc' = "versions"
    /\ UNCHANGED <<job, env, data, ext, saved, exitCode, fhist>>

\* line 365
VersionInformation ==
    /\ pc = "versions"
    /\ ws' = AddVersionInformation(ws, data)
    /\ pc' = "final"
    /\ UNCHANGED <<job, env, data, ext, saved, exitCode, fhist>>

\* line 368
FinalFormatting ==
    /\ pc = "final"
    /\ ws' = ApplyFinalFormatting(ws)
    /\ pc' = "save"
    /\ UNCHANGED <<job, env, data, ext, saved, exitCode, fhist>>

\* lines 371, 382-384: wb.save(output_file)
SaveWorkbook ==
    /\ pc = "save"
    /\ IF env.writable
       THEN saved' = TRUE /\ pc' = "report" /\ UNCHANGED <<env, exitCode>>
       ELSE Exit(1, "write_failed") /\ UNCHANGED saved
    /\ UNCHANGED <<job, data, ext, ws, fhist>>

\* line 548: the success message; the interpreter exits with status 0
Finish ==
    /\ pc = "report"
    /\ pc' = "exit"
    /\ exitCode' = 0
    /\ UNCHANGED <<job, env, data, ext, ws, saved, fhist>>

\* the captured-output filter applied to its own result
ApplyFilter ==
    /\ pc = "filter"
    /\ Len(fhist) < 3
    /\ fhist' = Append(fhist, FilterCapturedOutput(fhist[Len(fhist)]))
    /\ UNCHANGED <<pc, job, env, data, ext, ws, saved, exitCode>>

(***************************************************************************)
(* Specifications.                                                         *)
(***************************************************************************)
\* a run of the command: the command line and the environment are chosen
Init ==
    /\ pc = "main"
    /\ job \in {[supplied |-> FALSE, id |-> <<>>], [supplied |-> TRUE, id |-> <<"7", "7">>]}
    /\ env \in [dcirc : BOOLEAN, tool : BOOLEAN, input : InputKinds,
                writable : BOOLEAN, fetch : {"none"}, error : {""}]
    /\ data = NoData
    /\ ext = NoExtract
    /\ ws = EmptySheet
    /\ saved = FALSE
    /\ exitCode = -1
    /\ fhist = <<>>

Next ==
    \/ CheckFileExists
    \/ CheckTool
    \/ Download
    \/ Offline
    \/ LoadClaim
    \/ Extract
    \/ AddTestResults
    \/ BasicStyling
    \/ ColumnFormatting
    \/ SummarySection
    \/ VersionInformation
    \/ FinalFormatting
    \/ SaveWorkbook
    \/ Finish

Spec == Init /\ [][Next]_vars

\* extract_test_results on the claims of the sorting specification
SortClaims ==
    {ClaimRecord(TRUE, TRUE, Keyed(ts), TRUE, FullVersions) :
        ts \in SeqsOf(SortTests, 1, MaxSortEntries)}

InitSort ==
    /\ pc = "extract"
    /\ job = [supplied |-> FALSE, id |-> OfflineJobId]
    /\ env = [dcirc |-> TRUE, tool |-> TRUE, input |-> "valid", writable |-> TRUE,
              fetch |-> "none", error |-> ""]
    /\ data \in SortClaims
    /\ ext = NoExtract
    /\ ws = EmptySheet
    /\ saved = FALSE
    /\ exitCode = -1
    /\ fhist = <<>>

NextSort == Extract

SpecSort == InitSort /\ [][NextSort]_vars

\* the states of the entries of a long claim, in turn
LongStates == <<Str(StFailed), Str(StError), Str(StSkipped), Str(StPassed)>>

\* a claim of n entries, one per test case of the run
LongClaim(n) ==
    ClaimRecord(TRUE, TRUE,
                Keyed([i \in 1..n |-> BareTest(Str(<<"A">>), LongStates[(i % 4) + 1])]),
                TRUE, FullVersions)

\* the rendering of the reports of claims of 1 to MaxLongEntries entries
LongClaims == {LongClaim(n) : n \in 1..MaxLongEntries}

InitLong ==
    /\ pc = "extract"
    /\ job = [supplied |-> FALSE, id |-> OfflineJobId]
    /\ env = [dcirc |-> TRUE, tool |-> TRUE, input |-> "valid", writable |-> TRUE,
              fetch |-> "none", error |-> ""]
    /\ data \in LongClaims
    /\ ext = NoExtract
    /\ ws = EmptySheet
    /\ saved = FALSE
    /\ exitCode = -1
    /\ fhist = <<>>

NextLong ==
    \/ Extract
    \/ AddTestResults
    \/ BasicStyling
    \/ ColumnFormatting
    \/ SummarySection
    \/ VersionInformation
    \/ FinalFormatting
    \/ SaveWorkbook
    \/ Finish

SpecLong == InitLong /\ [][NextLong]_vars

\* the lines captured outputs are made of in the filter specification
FilterLines ==
    {<<>>, <<" ">>, <<"I">>, <<" ", "I">>, <<"I", " ">>, <<"I", "N", "F", "O">>,
     <<"I", "N", "F", "O", " ", "I">>, <<" ", "I", "N", "F", "O">>,
     <<"I", "N", " ", "F", "O">>, <<"\t", "O">>}

FilterInputs ==
    {Join(<<"\n">>, ls) : ls \in SeqsOf(FilterLines, 1, MaxLines)}
    \cup {ScenarioOutput}

InitFilter ==
    /\ pc = "filter"
    /\ job = [supplied |-> FALSE, id |-> <<>>]
    /\ env = [dcirc |-> TRUE, tool |-> TRUE, input |-> "valid", writable |-> TRUE,
              fetch |-> "none", error |-> ""]
    /\ data = NoData
    /\ ext = NoExtract
    /\ ws = EmptySheet
    /\ saved = FALSE
    /\ exitCode = -1
    /\ \E x \in FilterInputs : fhist = <<x>>

NextFilter == ApplyFilter

SpecFilter == InitFilter /\ [][NextFilter]_vars

(***************************************************************************)
(* Properties.                                                             *)
(***************************************************************************)
Items == data.results.items

\* the state of the i-th entry, as the row holds it
StateOf(i) == Get(Items[i].state, Str(<<>>))

\* every entry of the claim normalizes without error
AllNormalize == \A i \in 1..Len(Items) : Items[i].shape = "mapping"

\* the key of the entry a row was made from
SourceIndex(row) == CHOOSE i \in 1..Len(Items) : Str(Desc(i)) = row.Test_Text

HasRowOf(i) == \E k \in 1..Len(ext.rows) : ext.rows[k].Test_Text = Str(Desc(i))

\* the report is complete: the final formatting has run
ReportFinished == pc = "save" \/ saved

\* the summary block has been written
SummaryDone == pc \in {"versions", "final"} \/ ReportFinished

BucketRank(st) ==
    CASE st = Str(StFailed) -> 1
      [] st = Str(StError) -> 2
      [] st = Str(StSkipped) -> 3
      [] st = Str(StPassed) -> 4
      [] OTHER -> 0

\* C1: when every entry normalizes, the returned rows are ordered by bucket
\* (failed, error, skipped, passed) first, whatever the ids; inside a bucket
\* they are non-decreasing by Test_Id, the empty id first; rows of equal id
\* keep the order of the input.
C1_BucketedStableOrder ==
    (ext.status = "ok" /\ AllNormalize) =>
        \A i, j \in 1..Len(ext.rows) :
            i < j =>
                LET a == ext.rows[i]
                    b == ext.rows[j]
                IN  /\ BucketRank(a.State) \in 1..4
                    /\ BucketRank(b.State) \in 1..4
                    /\ BucketRank(a.State) <= BucketRank(b.State)
                    /\ BucketRank(a.State) = BucketRank(b.State) =>
                        /\ a.Test_Id.t = "str" /\ b.Test_Id.t = "str"
                        /\ ~StrLess(b.Test_Id.s, a.Test_Id.s)
                        /\ (a.Test_Id = b.Test_Id => SourceIndex(a) < SourceIndex(b))

\* C1 witness: three rows, reordered inside the failed bucket (ids A, A, B with
\* the B entry given first) and a passed row with the empty id placed last
C1_Witness ==
    /\ ext.status = "ok"
    /\ AllNormalize
    /\ Len(ext.rows) = 3
    /\ ext.rows[1].State = Str(StFailed) /\ ext.rows[1].Test_Id = Str(<<"A">>)
    /\ ext.rows[2].State = Str(StFailed) /\ ext.rows[2].Test_Id = Str(<<"A", "B">>)
    /\ ext.rows[3].State = Str(StPassed) /\ ext.rows[3].Test_Id = Str(<<>>)
    /\ SourceIndex(ext.rows[1]) = 3
    /\ SourceIndex(ext.rows[3]) = 1

\* the number of entries in the given state
CountOf(st) == Cardinality({i \in 1..Len(Items) : StateOf(i) = Str(st)})

\* C2: when every entry normalizes, each count is the number of entries with
\* exactly that state, the number of rows is the sum of the four counts and
\* is the Total of the summary (B2); an entry with another state is in no row
\* and in no count; with recognized states only there is a row per entry.
C2_CountsAndTotal ==
    (ext.status = "ok" /\ AllNormalize) =>
        /\ ext.failed = CountOf(StFailed)
        /\ ext.error = CountOf(StError)
        /\ ext.skipped = CountOf(StSkipped)
        /\ ext.passed = CountOf(StPassed)
        /\ Len(ext.rows) = ext.failed + ext.error + ext.skipped + ext.passed
        /\ \A i \in 1..Len(Items) : StateOf(i) \notin States => ~HasRowOf(i)
        /\ (\A i \in 1..Len(Items) : StateOf(i) \in States) => Len(ext.rows) = Len(Items)
        /\ SummaryDone =>
            /\ ValueAt(ws, 2, 2) = Num(Len(ext.rows))
            /\ ValueAt(ws, 3, 2) = Num(CountOf(StFailed))
            /\ ValueAt(ws, 4, 2) = Num(CountOf(StError))
            /\ ValueAt(ws, 5, 2) = Num(CountOf(StSkipped))
            /\ ValueAt(ws, 6, 2) = Num(CountOf(StPassed))

\* C2 witness: a saved report of a claim with a skipped entry and an entry of
\* an unrecognized state: Total is 1
C2_Witness ==
    /\ saved
    /\ AllNormalize
    /\ Len(Items) = 2
    /\ StateOf(1) \notin States
    /\ StateOf(2) = Str(StSkipped)
    /\ ext.skipped = 1
    /\ ValueAt(ws, 2, 2) = Num(1)

\* C3: in the report, a passed row carries neither Capture_Output nor
\* Best_Practice_Link and both cells are empty; a failed, error or skipped row
\* carries both, and the cells hold the filtered captured output and the
\* best-practice reference of the entry.
C3_ConditionalFields ==
    (ReportFinished /\ ext.status = "ok") =>
        \A k \in 1..Len(ext.rows) :
            LET row == ext.rows[k]
                test == Items[SourceIndex(row)]
            IN  IF row.State = Str(StPassed)
                THEN /\ "Capture_Output" \notin DOMAIN row
                     /\ "Best_Practice_Link" \notin DOMAIN row
                     /\ ValueAt(ws, 10 + k, 4) = Str(<<>>)
                     /\ ValueAt(ws, 10 + k, 8) = Str(<<>>)
                ELSE /\ "Capture_Output" \in DOMAIN row
                     /\ "Best_Practice_Link" \in DOMAIN row
                     /\ ValueAt(ws, 10 + k, 4) = Str(FilterCapturedOutput(test.out))
                     /\ ValueAt(ws, 10 + k, 8) = Str(test.link)

\* C3 witness: a saved report with an error row that shows its filtered
\* output and a passed row whose entry had output and a reference
C3_Witness ==
    /\ saved
    /\ Len(ext.rows) = 2
    /\ ext.rows[1].State = Str(StError)
    /\ ValueAt(ws, 11, 4) = Str(<<"l", "i", "n", "e", "1", "\n", "l", "i", "n", "e", "2">>)
    /\ ValueAt(ws, 11, 8) = Str(Items[SourceIndex(ext.rows[1])].link)
    /\ ext.rows[2].State = Str(StPassed)
    /\ Items[SourceIndex(ext.rows[2])].out # <<>>
    /\ ValueAt(ws, 12, 4) = Str(<<>>)

\* no line of the text contains INFO
NoInfoLine(x) == \A i \in 1..Len(SplitLines(x)) : ~Contains(SplitLines(x)[i], INFO)

\* the text neither begins nor ends with whitespace
NoEdgeSpace(x) == x = <<>> \/ (~IsSpace(x[1]) /\ ~IsSpace(x[Len(x)]))

ScenarioFiltered == <<"l", "i", "n", "e", "1", "\n", "l", "i", "n", "e", "2">>

\* C4, as claimed: for every captured output x, filter(filter(x)) = filter(x);
\* and the scenario output filters to "line1\nline2".
C4_FilterIdempotent ==
    /\ Len(fhist) = 3 => fhist[3] = fhist[2]
    /\ (Len(fhist) >= 2 /\ fhist[1] = ScenarioOutput) => fhist[2] = ScenarioFiltered

\* C4, amended: filter(filter(x)) is filter(x) with its leading and trailing
\* whitespace removed; it equals filter(x) when x has no line containing INFO,
\* and whenever filter(x) neither begins nor ends with whitespace; the
\* scenario output filters to "line1\nline2".
C4_FilterIdempotentTrimmed ==
    /\ Len(fhist) = 3 =>
        /\ fhist[3] = Strip(fhist[2])
        /\ (NoInfoLine(fhist[1]) \/ NoEdgeSpace(fhist[2])) => fhist[3] = fhist[2]
    /\ (Len(fhist) >= 2 /\ fhist[1] = ScenarioOutput) => fhist[2] = ScenarioFiltered

\* C4 witness: the scenario output filtered twice
C4_Witness ==
    /\ Len(fhist) = 3
    /\ fhist[1] = ScenarioOutput
    /\ fhist[2] = ScenarioFiltered
    /\ fhist[3] = ScenarioFiltered

\* C5: a claim with no results mapping or with an empty one never yields a
\* successful extraction; the run stops with a non-zero status on the
\* missing-results error and no worksheet is built or saved.
C5_MissingResultsFatal ==
    /\ ext.status = "ok" => (data.results.present /\ data.results.items # <<>>)
    /\ (data.loaded /\ (~data.results.present \/ data.results.items = <<>>)) =>
        /\ pc \in {"extract", "exit"}
        /\ ~saved
        /\ ws = EmptySheet
        /\ pc = "exit" =>
            /\ exitCode = 1
            /\ env.error \in {"missing_claim", "missing_results", "no_results"}

\* C5 witness: the run of a claim with an empty results mapping has ended
C5_Witness ==
    /\ pc = "exit"
    /\ data.loaded
    /\ data.results.present
    /\ data.results.items = <<>>
    /\ ext.status = "no_results"
    /\ exitCode = 1

\* C6, as claimed: with a non-empty results mapping extraction never fails; a
\* malformed entry is skipped and every other entry with a recognized state is
\* in the returned rows.
C6_ExtractionNeverFails ==
    (pc # "extract" /\ data.loaded /\ data.results.items # <<>>) =>
        /\ ext.status = "ok"
        /\ \A i \in 1..Len(Items) :
            IF Items[i].shape = "mapping" /\ StateOf(i) \in States
            THEN HasRowOf(i)
            ELSE ~HasRowOf(i)

\* C7, as claimed: a run that has ended either saved the report and exited
\* with status 0, or met a fatal condition and exited with a non-zero status.
C7_ExitContract ==
    pc = "exit" =>
        \/ (exitCode = 0 /\ saved)
        \/ (exitCode # 0 /\ env.error # "")

\* C8, as claimed: with a job reference, extraction starts only after the
\* retriever succeeded; without one the run needs neither dcictl nor dcirc.sh:
\* with a valid input file and a writable destination it extracts and saves.
C8_RetrieverThenOffline ==
    /\ (job.supplied /\ (pc = "extract" \/ ext.status # "none")) => env.fetch = "ok"
    /\ (pc = "exit" /\ ~job.supplied /\ env.input = "valid" /\ env.writable) =>
        (ext.status = "ok" /\ saved /\ env.fetch = "none")

\* C9: in the report, each of D2..D7 holds the version string of its key when
\* the versions mapping has the key and "N/A" when it has not; without a
\* versions mapping all six are "N/A" and rendering does not fail.
C9_VersionCells ==
    /\ ReportFinished =>
        \A i \in 1..6 :
            ValueAt(ws, i + 1, 4) =
                IF data.versions.present /\ VersionKeys[i] \in DOMAIN data.versions.map
                THEN Str(data.versions.map[VersionKeys[i]])
                ELSE Str(NA)
    /\ (pc = "exit" /\ ext.status = "ok") => env.error \in {"", "write_failed"}

\* C9 witness: a saved report of a claim without a versions mapping
C9_Witness ==
    /\ saved
    /\ ~data.versions.present
    /\ \A i \in 1..6 : ValueAt(ws, i + 1, 4) = Str(NA)

\* C10: in the report, row 10 holds the 8 headers in order and row 10+k the
\* k-th extracted row: its values in the columns of their headers, an empty
\* cell for a field it lacks, and the fill of its state in column C.
C10_TableLayout ==
    (ReportFinished /\ ext.status = "ok") =>
        /\ \A c \in 1..8 : ValueAt(ws, 10, c) = Str(Headers[c])
        /\ MaxRowOf(ws.cells) = 10 + Len(ext.rows)
        /\ \A k \in 1..Len(ext.rows) :
            LET row == ext.rows[k] IN
            /\ \A c \in 1..8 :
                /\ HasCell(ws, 10 + k, c)
                /\ ws.cells[<<10 + k, c>>].value =
                      IF HeaderKeys[c] \in DOMAIN row THEN row[HeaderKeys[c]]
                      ELSE Str(<<>>)
            /\ ws.cells[<<10 + k, 3>>].fill =
                  CASE row.State = Str(StFailed) -> "FF0000"
                    [] row.State = Str(StError) -> "8B0000"
                    [] row.State = Str(StSkipped) -> "FFE599"
                    [] row.State = Str(StPassed) -> "90EE90"

\* C10 witness: a saved report with a failed row in row 11 and a passed row,
\* without captured output, in row 12
C10_Witness ==
    /\ saved
    /\ Len(ext.rows) = 2
    /\ ValueAt(ws, 11, 3) = Str(StFailed) /\ CellAt(ws, 11, 3).fill = "FF0000"
    /\ ValueAt(ws, 12, 3) = Str(StPassed) /\ CellAt(ws, 12, 3).fill = "90EE90"
    /\ "Capture_Output" \notin DOMAIN ext.rows[2]
    /\ ValueAt(ws, 12, 4) = Str(<<>>)
    /\ ValueAt(ws, 10, 8) = Str(HBestPractice)

\* the height ws.row_dimensions holds for row r, 0 when none was set
RowHeight(sheet, r) ==
    LET hits == {i \in 1..Len(sheet.pinned) :
                    sheet.pinned[i][1] <= r /\ r <= sheet.pinned[i][2]}
    IN  IF hits = {} THEN 0 ELSE sheet.pinned[MaxOf(hits)][3]

\* the grid rows of the data rows of the finished report
DataRows == 11..MaxRowOf(ws.cells)

\* the columns apply_final_formatting pins to the wide width: B, D, F, G, H
WideColumns == {2, 4, 6, 7, 8}

\* C11: in the finished report every data row, from grid row 11 to the last
\* row of the table, has a pinned height, the same for all of them, however
\* many rows the report has
C11_DataRowHeightsPinned ==
    (ReportFinished /\ ext.status = "ok") =>
        \A r \in DataRows :
            /\ RowHeight(ws, r) # 0
            /\ RowHeight(ws, r) = RowHeight(ws, 11)

\* C12: in the finished report every column pinned to the wide width has that
\* width instead of its auto-sized one, and every data-row cell of those
\* columns still has text wrapping on
C12_WideColumnsWrap ==
    (ReportFinished /\ ext.status = "ok") =>
        \A c \in WideColumns :
            /\ c \in DOMAIN ws.width /\ ws.width[c] = 100
            /\ \A r \in DataRows : CellAt(ws, r, c).align.wrap = "on"

====
